---- MODULE Spec2Model ----
(***************************************************************************)
(* A model of btb (cmd/root.go): the inner instance (search-path filter,   *)
(* confirmation prompt, output directory creation, executable discovery,   *)
(* shim generation, sentinel) and the outer instance (session driver with  *)
(* its two relays).                                                        *)
(*                                                                         *)
(* Strings are sequences of characters or of atomic tokens; a filesystem   *)
(* path is the sequence of its components, so filepath.Join appends and    *)
(* filepath.Base takes the last component.                                 *)
(***************************************************************************)
EXTENDS Integers, Sequences, FiniteSets, TLC

VARIABLES
    \* ---- inner instance (rootCommandFunction, lines 209-341)
    pc,                  \* position of the inner run
    fs,                  \* the filesystem: path -> node
    umask,               \* the process's file mode creation mask
    pathEnv,             \* os.Getenv("PATH"), as tokens
    paths,               \* the filtered search directories
    idx,                 \* index of the running `for ... range` loop
    incorrectEntryCount,
    parentStat,          \* os.Stat(args.BinPath)
    allExe,
    exeMap,
    ranged,              \* keys of exeMap the final range loop has visited
    cur,                 \* the key of the current iteration (<<>> when none)
    file,                \* the open shim file (<<>> when none)
    out,                 \* writes to the inner output stream, in order
    fatalMsg,            \* what log.Fatal logged (<<>> when nothing)
    \* ---- observations of the inner run
    fs0,                 \* the filesystem the run started with
    existed,             \* dirExists(binPath) was true at line 236
    lastRead,            \* the latest result of reader.ReadString
    invalidSeen,         \* unrecognized responses read so far
    walkFs,              \* the filesystem as it was when discovery walked it
    pathsOrig,           \* paths before inPlaceReverse
    fatalAt,             \* the position log.Fatal was called at ("" when not)
    run,                 \* 1 for a run, 2 for the run that follows it
    fsEnd1,              \* the filesystem the first run left behind
    exeMap1,             \* the exeMap the first run built
    \* ---- outer instance (rootCommandFunction, lines 141-207)
    mainPc,              \* position of the main flow
    upPc,                \* position of the upstream relay (lines 170-176)
    downPc,              \* position of the downstream relay (lines 178-199)
    exitCode,            \* exit status of the outer process, -1 while it runs
    proc,                \* the session subprocess: "none", "running", "exited"
    procStatus,          \* how it ended: "ok", "err", "killed" ("" before)
    ctx,                 \* the timeout context: "active", "expired", "cancelled"
    stdinWrites,         \* the Write calls on the session's input stream, in order
    script,              \* everything the session writes to its output stream
    rd,                  \* how much of it the downstream relay has read
    data,                \* the downstream relay's buffer of this iteration
    nRead,               \* the count its Read returned (i)
    upData,              \* what the upstream relay's ReadBytes returned
    userLines,           \* lines the user has typed so far
    userEof,             \* the process's own input has ended
    \* ---- observations of the outer run
    lastChunk,           \* the bytes the latest downstream Read returned
    printed,             \* what the downstream relay printed since that Read
    sawSentinel,         \* some downstream Read returned a chunk with the sentinel
    \* ---- a call of canExecute (lines 68-104)
    permUser,            \* its user argument
    permInfo,            \* its info argument
    permCalled,          \* the call has returned
    permResult           \* what it returned

innerVars == <<pc, fs, umask, pathEnv, paths, idx, incorrectEntryCount,
               parentStat, allExe, exeMap, ranged, cur, file, out, fatalMsg,
               fs0, existed, lastRead, invalidSeen, walkFs, pathsOrig, fatalAt,
               run, fsEnd1, exeMap1>>

runVars == <<run, fsEnd1, exeMap1>>

outerVars == <<mainPc, upPc, downPc, exitCode, proc, procStatus, ctx, stdinWrites,
               script, rd, data, nRead, upData, userLines, userEof, lastChunk,
               printed, sawSentinel>>

permVars == <<permUser, permInfo, permCalled, permResult>>

vars == <<innerVars, outerVars, permVars>>

-----------------------------------------------------------------------------
(* Generic helpers *)

Last(s) == s[Len(s)]

Front(s) == SubSeq(s, 1, Len(s) - 1)

IsPrefix(p, q) == Len(p) <= Len(q) /\ SubSeq(q, 1, Len(p)) = p

RECURSIVE Flatten(_)
Flatten(ss) == IF ss = <<>> THEN <<>> ELSE ss[1] \o Flatten(Tail(ss))

\* The bitwise AND of two naturals.
RECURSIVE BitAnd(_, _)
BitAnd(a, b) ==
    IF a = 0 \/ b = 0 THEN 0
    ELSE (a % 2) * (b % 2) + 2 * BitAnd(a \div 2, b \div 2)

\* strings.Contains: sub occurs in s as a contiguous run.
Contains(s, sub) ==
    \E k \in 0..(Len(s) - Len(sub)) : SubSeq(s, k + 1, k + Len(sub)) = sub

\* strings.Split(s, sep) for a one-token separator.
RECURSIVE Split(_, _)
Split(s, sep) ==
    IF \A k \in 1..Len(s) : s[k] # sep THEN <<s>>
    ELSE LET k == CHOOSE j \in 1..Len(s) :
                      s[j] = sep /\ \A h \in 1..(j - 1) : s[h] # sep
         IN  <<SubSeq(s, 1, k - 1)>> \o Split(SubSeq(s, k + 1, Len(s)), sep)

\* strings.Join(elems, sep)
RECURSIVE StringsJoin(_, _)
StringsJoin(elems, sep) ==
    IF elems = <<>> THEN <<>>
    ELSE IF Len(elems) = 1 THEN elems[1]
    ELSE elems[1] \o sep \o StringsJoin(Tail(elems), sep)

\* fmt.Sprintf for a format whose only verbs are %s; a is the sequence of the
\* string arguments.
RECURSIVE Sprintf(_, _)
Sprintf(format, a) ==
    IF format = <<>> THEN <<>>
    ELSE IF format[1] = "%s" /\ a # <<>>
         THEN a[1] \o Sprintf(Tail(format), Tail(a))
         ELSE <<format[1]>> \o Sprintf(Tail(format), a)

-----------------------------------------------------------------------------
(* Program constants *)

S_IXUSR == 64     \* 0100

S_IXGRP == 8      \* 0010

S_IXOTH == 1      \* 0001

MaxIncorrect == 3

MarkerName == <<".btbMarker">>

Sentinel == <<"<", "<", "<", "D", "o", "n", "e", ">", ">", ">">>

BinFormat ==
    <<"#!/usr/bin/env bash", "\n", "\n", "toolbox run -c ", "%s", " ", "%s", " $@", "\n">>

\* The flags of the run (type Args): BinPath is a path, Prefix a file name.
args == [BinPath |-> <<(<<"home">>)>>, Prefix |-> <<"pf">>, Container |-> <<"f35">>]

\* user.Current(): the invoking user.
currentUser == [Uid |-> 1000, Gid |-> 1000]

-----------------------------------------------------------------------------
(* Paths and the filesystem *)

\* filepath.Join(dir, name)
Join(dir, name) == Append(dir, name)

\* filepath.Base(path)
Base(p) == Last(p)

\* A path as the text the program prints: "/" before every component.
PathText(p) == Flatten([k \in 1..Len(p) |-> <<"/">> \o p[k]])

\* Byte order of the tokens that file names are made of.
TokenOrder == <<"-", ".btbMarker", "bar", "bin", "foo", "home", "old", "opt", "pf", "sbin", "zz">>

TokenRank(t) == CHOOSE k \in 1..Len(TokenOrder) : TokenOrder[k] = t

\* a < b in the order os.ReadDir sorts directory entries by (file name).
RECURSIVE NameLess(_, _)
NameLess(a, b) ==
    IF b = <<>> THEN FALSE
    ELSE IF a = <<>> THEN TRUE
    ELSE IF a[1] # b[1] THEN TokenRank(a[1]) < TokenRank(b[1])
    ELSE NameLess(Tail(a), Tail(b))

DirNode(mode) == [kind |-> "dir", mode |-> mode, uid |-> 0, gid |-> 0, content |-> <<>>]

FileNode(mode, uid, gid, content) ==
    [kind |-> "file", mode |-> mode, uid |-> uid, gid |-> gid, content |-> content]

Exists(fsys, p) == p \in DOMAIN fsys

IsDir(fsys, p) == Exists(fsys, p) /\ fsys[p].kind = "dir"

\* The paths of the direct entries of directory p.
Children(fsys, p) ==
    {q \in DOMAIN fsys : Len(q) = Len(p) + 1 /\ IsPrefix(p, q)}

\* os.ReadDir: the direct entries of p sorted by file name.
RECURSIVE SortedPaths(_)
SortedPaths(S) ==
    IF S = {} THEN <<>>
    ELSE LET m == CHOOSE q \in S : \A r \in S \ {q} : NameLess(Base(q), Base(r))
         IN  <<m>> \o SortedPaths(S \ {m})

ReadDir(fsys, p) == SortedPaths(Children(fsys, p))

\* os.RemoveAll(p): p and everything beneath it.
RemoveAll(fsys, p) ==
    [q \in {r \in DOMAIN fsys : ~IsPrefix(p, r)} |-> fsys[q]]

\* The permission bits a new file or directory gets: the requested mode's
\* permission bits less the bits of the umask.
CreateMode(mode, mask) == (mode % 512) - BitAnd(mode % 512, mask)

\* os.FileInfo of an entry; Sys() is the *syscall.Stat_t that os.Lstat fills.
Info(fsys, p) ==
    [mode |-> fsys[p].mode, isDir |-> fsys[p].kind = "dir",
     sysType |-> "*syscall.Stat_t", uid |-> fsys[p].uid, gid |-> fsys[p].gid]

\* canExecute (lines 68-104)
canExecute(userInfo, info) ==
    IF BitAnd(S_IXOTH, info.mode) # 0 THEN TRUE
    ELSE IF info.sysType # "syscall.Stat_t" THEN FALSE
    ELSE IF BitAnd(S_IXGRP, info.mode) # 0 /\ info.gid = userInfo.Gid THEN TRUE
    ELSE IF BitAnd(S_IXUSR, info.mode) # 0 /\ info.uid = userInfo.Uid THEN TRUE
    ELSE FALSE

\* The callbacks' first statement (lines 215 and 288): a directory entry whose
\* name differs from the base name of the walked root returns SkipDir.
SkipsDir(fsys, root, p) == Base(p) # Base(root) /\ IsDir(fsys, p)

\* filepath.WalkDir(root, fn) with either callback: the entries, in walk order,
\* for which fn gets past its SkipDir test.  WalkDir reads a directory's
\* entries in sorted order and descends into each directory fn did not skip.
RECURSIVE WalkFrom(_, _, _)
WalkFrom(fsys, root, p) ==
    IF SkipsDir(fsys, root, p) THEN <<>>
    ELSE IF ~IsDir(fsys, p) THEN <<p>>
    ELSE LET entries == ReadDir(fsys, p)
         IN  <<p>> \o Flatten([k \in 1..Len(entries) |-> WalkFrom(fsys, root, entries[k])])

WalkDir(fsys, root) == WalkFrom(fsys, root, root)

\* The marker walk of one search directory (lines 213-225).
IsBtbPath(fsys, path) ==
    \E k \in 1..Len(WalkDir(fsys, path)) : Base(WalkDir(fsys, path)[k]) = MarkerName

\* The discovery walk of one search directory (lines 287-311): what it appends
\* to allExe.
IsExeEntry(fsys, p) == ~IsDir(fsys, p) /\ canExecute(currentUser, Info(fsys, p))

WalkExe(fsys, path) ==
    LET visited == WalkDir(fsys, path)
        Keep(p) == IsExeEntry(fsys, p)
    IN  SelectSeq(visited, Keep)

\* inPlaceReverse (lines 59-66): the swaps of the loop, one by one.
RECURSIVE ReverseLoop(_, _)
ReverseLoop(arr, k) ==
    IF k >= Len(arr) \div 2 THEN arr
    ELSE ReverseLoop([arr EXCEPT ![k + 1] = arr[Len(arr) - k],
                                 ![Len(arr) - k] = arr[k + 1]], k + 1)

inPlaceReverse(arr) == ReverseLoop(arr, 0)

\* Lines 316-320: exeMap[filepath.Base(exePath)] = exePath, in order.
RECURSIVE BuildExeMap(_)
BuildExeMap(exes) ==
    IF exes = <<>> THEN <<>>
    ELSE LET m == BuildExeMap(Front(exes))
             e == Last(exes)
         IN  [n \in (DOMAIN m) \cup {Base(e)} |-> IF n = Base(e) THEN e ELSE m[n]]

-----------------------------------------------------------------------------
(* Text of the confirmation dialogue *)

LowerOf(c) ==
    CASE c = "Y" -> "y" [] c = "E" -> "e" [] c = "S" -> "s"
      [] c = "N" -> "n" [] c = "O" -> "o" [] OTHER -> c

\* A variant of ToLower that leaves upper case as it is.
ToLowerKeepsCase(s) == s

\* strings.ToLower
ToLower(s) == [k \in 1..Len(s) |-> LowerOf(s[k])]

IsSpace(c) == c \in {" ", "\n", "\t", "\r"}

\* strings.TrimSpace: leading and trailing white space removed.
RECURSIVE TrimLeft(_)
TrimLeft(s) == IF s # <<>> /\ IsSpace(s[1]) THEN TrimLeft(Tail(s)) ELSE s

RECURSIVE TrimRight(_)
TrimRight(s) == IF s # <<>> /\ IsSpace(Last(s)) THEN TrimRight(Front(s)) ELSE s

TrimSpace(s) == TrimRight(TrimLeft(s))

\* What reader.ReadString('\n') can return (line 242): a line with its
\* delimiter, or the bytes before the end of the input with io.EOF.
ReadResults ==
    {[data |-> d, err |-> FALSE] :
        d \in {<<"y", "\n">>, <<"Y", "E", "S", " ", "\n">>, <<"n", "\n">>,
               <<" ", "N", "o", "\n">>, <<"x", "\n">>, <<"\n">>, <<"y", "y", "\n">>}}
    \cup {[data |-> d, err |-> TRUE] : d \in {<<>>, <<"y">>}}

NoRead == [data |-> <<>>, err |-> FALSE]

\* Lines read whole that the dialogue is specified to accept, to refuse.
YesLines == {<<"y", "\n">>, <<"Y", "E", "S", " ", "\n">>}

NoLines == {<<"n", "\n">>, <<" ", "N", "o", "\n">>}

Unrecognized(r) == ~r.err /\ r.data \notin YesLines \cup NoLines

-----------------------------------------------------------------------------
(* The inner instance: initial states *)

binPath == Join(args.BinPath, args.Prefix)

DirA == <<(<<"bin">>)>>

DirB == <<(<<"sbin">>)>>

DirZ == <<(<<"zz">>)>>

DirOpt == <<(<<"opt">>)>>

Colon == <<(<<":">>)>>

EmptyFs == [q \in {} |-> DirNode(0)]

BaseFs ==
    (DirA :> DirNode(493)) @@ (DirB :> DirNode(493)) @@ (DirZ :> DirNode(493))
    @@ (args.BinPath :> DirNode(493))

Exe(p) == p :> FileNode(493, 0, 0, <<"ELF">>)

PartsA ==
    { EmptyFs,
      Exe(Join(DirA, <<"foo">>)),
      Join(DirA, <<"foo">>) :> FileNode(420, 0, 0, <<"data">>),
      Join(DirA, <<"foo">>) :> FileNode(448, 1000, 1000, <<"ELF">>),
      Exe(Join(DirA, <<"foo">>)) @@ Exe(Join(DirA, <<"bar">>)) }

PartsB == { EmptyFs, Exe(Join(DirB, <<"foo">>)) }

SubZ == Join(DirZ, <<"zz">>)

PartsZ ==
    { f @@ m @@ sub :
        f \in { EmptyFs, Exe(Join(DirZ, <<"foo">>)) },
        m \in { EmptyFs, Join(DirZ, MarkerName) :> FileNode(493, 1000, 1000, <<>>) },
        sub \in { EmptyFs,
                  (SubZ :> DirNode(493)) @@ Exe(Join(SubZ, <<"foo">>)),
                  (SubZ :> DirNode(493))
                      @@ (Join(SubZ, MarkerName) :> FileNode(493, 1000, 1000, <<>>)) } }

PartsOut ==
    { EmptyFs,
      (binPath :> DirNode(493))
          @@ (Join(binPath, MarkerName) :> FileNode(493, 1000, 1000, <<>>))
          @@ (Join(binPath, <<"pf", "-", "old">>) :> FileNode(493, 1000, 1000, <<"old shim">>)),
      (binPath :> DirNode(493)) @@ Exe(Join(binPath, <<"old">>)) }

InitialFilesystems ==
    { BaseFs @@ a @@ b @@ z @@ o : a \in PartsA, b \in PartsB, z \in PartsZ, o \in PartsOut }

PathEnvs ==
    { <<DirZ, Colon, DirA, Colon, DirB>>,
      <<DirA, Colon, DirZ>>,
      <<binPath, Colon, DirA>>,
      <<DirB, Colon, Colon, DirOpt, Colon, binPath, Colon, DirZ>> }

Umasks == {18, 23}    \* 022, 027

\* Lines 209-211: the fields of PATH, each a path.
SplitPaths(env) ==
    LET fields == Split(env, Colon) IN [k \in 1..Len(fields) |-> Flatten(fields[k])]

InitInner ==
    /\ pc = "filter"
    /\ fs \in InitialFilesystems
    /\ fs0 = fs
    /\ umask \in Umasks
    /\ pathEnv \in PathEnvs
    /\ paths = <<>>
    /\ idx = 1
    /\ incorrectEntryCount = 0
    /\ parentStat = Info(fs, args.BinPath)
    /\ allExe = <<>>
    /\ exeMap = <<>>
    /\ ranged = {}
    /\ cur = <<>>
    /\ file = <<>>
    /\ out = <<>>
    /\ fatalMsg = <<>>
    /\ existed = FALSE
    /\ lastRead = NoRead
    /\ invalidSeen = 0
    /\ walkFs = fs
    /\ pathsOrig = <<>>
    /\ fatalAt = ""
    /\ run = 1
    /\ fsEnd1 = EmptyFs
    /\ exeMap1 = <<>>

-----------------------------------------------------------------------------
(* The inner instance: steps *)

\* log.Fatal(msg): the message is logged and the process exits.
Fatal(msg) ==
    /\ pc' = "fatal"
    /\ fatalMsg' = msg
    /\ fatalAt' = pc

\* dirExists (lines 49-57), without its error branch.
dirExists(fsys, p) == Exists(fsys, p)

\* Lines 211-231, one iteration: a directory that exists and whose marker walk
\* finds no marker is appended to paths.
FilterPath ==
    /\ pc = "filter"
    /\ LET split == SplitPaths(pathEnv) IN
         IF idx > Len(split)
         THEN /\ pc' = "check"
              /\ UNCHANGED <<paths, idx>>
         ELSE /\ paths' = IF dirExists(fs, split[idx]) /\ ~IsBtbPath(fs, split[idx])
                          THEN Append(paths, split[idx])
                          ELSE paths
              /\ idx' = idx + 1
              /\ pc' = pc
    /\ UNCHANGED <<fs, umask, pathEnv, incorrectEntryCount, parentStat, allExe, exeMap,
                   ranged, cur, file, out, fatalMsg, fatalAt, fs0, existed, lastRead,
                   invalidSeen, walkFs, pathsOrig>>
    /\ UNCHANGED <<runVars, outerVars, permVars>>

PromptText == Sprintf(<<"rmdir: ", "%s", " (y/n)? ">>, <<PathText(binPath)>>)

\* Lines 235-237
CheckExisting ==
    /\ pc = "check"
    /\ existed' = dirExists(fs, binPath)
    /\ IF dirExists(fs, binPath)
       THEN /\ out' = Append(out, PromptText)
            /\ pc' = "prompt"
       ELSE /\ out' = out
            /\ pc' = "stat"
    /\ UNCHANGED <<fs, umask, pathEnv, paths, idx, incorrectEntryCount, parentStat,
                   allExe, exeMap, ranged, cur, file, fatalMsg, fatalAt, fs0, lastRead,
                   invalidSeen, walkFs, pathsOrig>>
    /\ UNCHANGED <<runVars, outerVars, permVars>>

\* The switch of lines 247-261 on one response.
Answer(response) ==
    LET t == TrimSpace(ToLower(response)) IN
    IF t \in {<<"y">>, <<"y", "e", "s">>} THEN "yes"
    ELSE IF t \in {<<"n">>, <<"n", "o">>} THEN "no"
    ELSE "default"

\* A variant of TooMany that allows one more try.
TooManyOneLater == incorrectEntryCount = MaxIncorrect + 1

TooMany == incorrectEntryCount = MaxIncorrect

\* Lines 241-262, one iteration of UserInputLoop.
ReadResponse ==
    /\ pc = "prompt"
    /\ \E r \in ReadResults :
         /\ lastRead' = r
         /\ invalidSeen' = IF Unrecognized(r) THEN invalidSeen + 1 ELSE invalidSeen
         /\ IF r.err
            THEN /\ Fatal(<<"EOF">>)
                 /\ UNCHANGED <<fs, out, incorrectEntryCount>>
            ELSE CASE Answer(r.data) = "yes" ->
                        \/ /\ fs' = RemoveAll(fs, binPath)
                           /\ pc' = "stat"
                           /\ UNCHANGED <<out, incorrectEntryCount, fatalMsg, fatalAt>>
                        \/ /\ Fatal(<<"error">>)      \* os.RemoveAll fails
                           /\ UNCHANGED <<fs, out, incorrectEntryCount>>
                   [] Answer(r.data) = "no" ->
                        /\ Fatal(<<"Cannot continue with non-empty directory">>)
                        /\ UNCHANGED <<fs, out, incorrectEntryCount>>
                   [] OTHER ->
                        IF TooMany
                        THEN /\ Fatal(<<"Too many incorrect tries. Stopping">>)
                             /\ UNCHANGED <<fs, out, incorrectEntryCount>>
                        ELSE /\ out' = Append(out, <<"Please enter (y/n): ">>)
                             /\ incorrectEntryCount' = incorrectEntryCount + 1
                             /\ UNCHANGED <<fs, pc, fatalMsg, fatalAt>>
    /\ UNCHANGED <<umask, pathEnv, paths, idx, parentStat, allExe, exeMap, ranged,
                   cur, file, fs0, existed, walkFs, pathsOrig>>
    /\ UNCHANGED <<runVars, outerVars, permVars>>

\* Lines 265-268
StatParent ==
    /\ pc = "stat"
    /\ IF Exists(fs, args.BinPath)
       THEN /\ parentStat' = Info(fs, args.BinPath)
            /\ pc' = "mkdir"
            /\ UNCHANGED <<fatalMsg, fatalAt>>
       ELSE /\ Fatal(<<"error">>)
            /\ UNCHANGED parentStat
    /\ UNCHANGED <<fs, umask, pathEnv, paths, idx, incorrectEntryCount, allExe, exeMap,
                   ranged, cur, file, out, fs0, existed, lastRead, invalidSeen,
                   walkFs, pathsOrig>>
    /\ UNCHANGED <<runVars, outerVars, permVars>>

\* Lines 270-272: os.Mkdir fails on a path that exists.
Mkdir ==
    /\ pc = "mkdir"
    /\ IF Exists(fs, binPath) \/ ~IsDir(fs, args.BinPath)
       THEN /\ Fatal(<<"error">>)
            /\ UNCHANGED fs
       ELSE /\ fs' = fs @@ (binPath :> DirNode(CreateMode(parentStat.mode, umask)))
            /\ pc' = "marker"
            /\ UNCHANGED <<fatalMsg, fatalAt>>
    /\ UNCHANGED <<umask, pathEnv, paths, idx, incorrectEntryCount, parentStat, allExe,
                   exeMap, ranged, cur, file, out, fs0, existed, lastRead,
                   invalidSeen, walkFs, pathsOrig>>
    /\ UNCHANGED <<runVars, outerVars, permVars>>

\* os.OpenFile(p, O_CREATE|..., mode) without O_TRUNC: a missing file is created
\* empty, an existing one is opened as it is.
OpenFile(fsys, p, mode) ==
    IF Exists(fsys, p) THEN fsys
    ELSE fsys @@ (p :> FileNode(CreateMode(mode, umask), currentUser.Uid,
                                currentUser.Gid, <<>>))

\* A variant of CreateMarker that goes on without creating the marker.
CreateMarkerSkipped ==
    /\ pc = "marker"
    /\ pc' = "reverse"
    /\ UNCHANGED <<fs, umask, pathEnv, paths, idx, incorrectEntryCount, parentStat,
                   allExe, exeMap, ranged, cur, file, out, fatalMsg, fatalAt, fs0,
                   existed, lastRead, invalidSeen, walkFs, pathsOrig>>
    /\ UNCHANGED <<runVars, outerVars, permVars>>

\* Lines 274-282: the marker is created and closed.
CreateMarker ==
    /\ pc = "marker"
    /\ IF ~IsDir(fs, binPath)
       THEN /\ Fatal(<<"error">>)
            /\ UNCHANGED fs
       ELSE /\ fs' = OpenFile(fs, Join(binPath, MarkerName), parentStat.mode)
            /\ pc' = "reverse"
            /\ UNCHANGED <<fatalMsg, fatalAt>>
    /\ UNCHANGED <<umask, pathEnv, paths, idx, incorrectEntryCount, parentStat, allExe,
                   exeMap, ranged, cur, file, out, fs0, existed, lastRead,
                   invalidSeen, walkFs, pathsOrig>>
    /\ UNCHANGED <<runVars, outerVars, permVars>>

\* Lines 284-285
ReversePaths ==
    /\ pc = "reverse"
    /\ pathsOrig' = paths
    /\ paths' = inPlaceReverse(paths)
    /\ idx' = 1
    /\ walkFs' = fs
    /\ pc' = "walk"
    /\ UNCHANGED <<fs, umask, pathEnv, incorrectEntryCount, parentStat, allExe, exeMap,
                   ranged, cur, file, out, fatalMsg, fatalAt, fs0, existed, lastRead,
                   invalidSeen>>
    /\ UNCHANGED <<runVars, outerVars, permVars>>

\* Lines 286-314, one iteration.
WalkPath ==
    /\ pc = "walk"
    /\ IF idx > Len(paths)
       THEN /\ pc' = "map"
            /\ UNCHANGED <<allExe, idx>>
       ELSE /\ allExe' = allExe \o WalkExe(fs, paths[idx])
            /\ idx' = idx + 1
            /\ pc' = pc
    /\ UNCHANGED <<fs, umask, pathEnv, paths, incorrectEntryCount, parentStat, exeMap,
                   ranged, cur, file, out, fatalMsg, fatalAt, fs0, existed, lastRead,
                   invalidSeen, walkFs, pathsOrig>>
    /\ UNCHANGED <<runVars, outerVars, permVars>>

\* Lines 316-320
BuildMap ==
    /\ pc = "map"
    /\ exeMap' = BuildExeMap(allExe)
    /\ ranged' = {}
    /\ pc' = "range"
    /\ UNCHANGED <<fs, umask, pathEnv, paths, idx, incorrectEntryCount, parentStat,
                   allExe, cur, file, out, fatalMsg, fatalAt, fs0, existed, lastRead,
                   invalidSeen, walkFs, pathsOrig>>
    /\ UNCHANGED <<runVars, outerVars, permVars>>

\* A variant of RangeNext that leaves the loop after its first iteration.
RangeNextStopsEarly ==
    /\ pc = "range"
    /\ IF ranged # {} \/ DOMAIN exeMap = {}
       THEN /\ pc' = "print"
            /\ UNCHANGED cur
       ELSE /\ \E exe \in DOMAIN exeMap : cur' = exe
            /\ pc' = "open"
    /\ UNCHANGED <<fs, umask, pathEnv, paths, idx, incorrectEntryCount, parentStat,
                   allExe, exeMap, ranged, file, out, fatalMsg, fatalAt, fs0, existed,
                   lastRead, invalidSeen, walkFs, pathsOrig>>
    /\ UNCHANGED <<runVars, outerVars, permVars>>

\* Line 322: the range over exeMap yields its keys in any order, each once.
RangeNext ==
    /\ pc = "range"
    /\ IF ranged = DOMAIN exeMap
       THEN /\ pc' = "print"
            /\ UNCHANGED cur
       ELSE /\ \E exe \in (DOMAIN exeMap) \ ranged : cur' = exe
            /\ pc' = "open"
    /\ UNCHANGED <<fs, umask, pathEnv, paths, idx, incorrectEntryCount, parentStat,
                   allExe, exeMap, ranged, file, out, fatalMsg, fatalAt, fs0, existed,
                   lastRead, invalidSeen, walkFs, pathsOrig>>
    /\ UNCHANGED <<runVars, outerVars, permVars>>

\* Lines 323-324
ShimPath(exe) == Join(binPath, Sprintf(<<"%s", "-", "%s">>, <<args.Prefix, exe>>))

\* A variant of ShimContents with the two arguments in the other order.
ShimContentsSwapped(exePath) == Sprintf(BinFormat, <<PathText(exePath), args.Container>>)

\* A variant of ShimContents that names the container only in the shim the
\* range loop writes first.
ShimContentsFirstOnly(exePath) ==
    Sprintf(BinFormat, <<IF ranged = {} THEN args.Container ELSE <<>>, PathText(exePath)>>)

\* Line 331
ShimContents(exePath) == Sprintf(BinFormat, <<args.Container, PathText(exePath)>>)

\* Lines 326-329
OpenShim ==
    /\ pc = "open"
    /\ IF ~IsDir(fs, binPath) \/ IsDir(fs, ShimPath(cur))
       THEN /\ Fatal(<<"error">>)
            /\ UNCHANGED <<fs, file>>
       ELSE /\ fs' = OpenFile(fs, ShimPath(cur), parentStat.mode)
            /\ file' = ShimPath(cur)
            /\ pc' = "write"
            /\ UNCHANGED <<fatalMsg, fatalAt>>
    /\ UNCHANGED <<umask, pathEnv, paths, idx, incorrectEntryCount, parentStat, allExe,
                   exeMap, ranged, cur, out, fs0, existed, lastRead, invalidSeen,
                   walkFs, pathsOrig>>
    /\ UNCHANGED <<runVars, outerVars, permVars>>

\* file.WriteString at offset 0 of a file opened without O_TRUNC: the new
\* bytes replace the first bytes, what lies beyond them stays.
WriteAtStart(old, new) == new \o SubSeq(old, Len(new) + 1, Len(old))

\* Lines 331-334
WriteShim ==
    /\ pc = "write"
    /\ fs' = [fs EXCEPT ![file].content = WriteAtStart(@, ShimContents(exeMap[cur]))]
    /\ pc' = "close"
    /\ UNCHANGED <<umask, pathEnv, paths, idx, incorrectEntryCount, parentStat, allExe,
                   exeMap, ranged, cur, file, out, fatalMsg, fatalAt, fs0, existed, lastRead,
                   invalidSeen, walkFs, pathsOrig>>
    /\ UNCHANGED <<runVars, outerVars, permVars>>

\* Lines 336-338 and the end of the iteration.
CloseShim ==
    /\ pc = "close"
    /\ file' = <<>>
    /\ ranged' = ranged \cup {cur}
    /\ cur' = <<>>
    /\ pc' = "range"
    /\ UNCHANGED <<fs, umask, pathEnv, paths, idx, incorrectEntryCount, parentStat,
                   allExe, exeMap, out, fatalMsg, fatalAt, fs0, existed, lastRead, invalidSeen,
                   walkFs, pathsOrig>>
    /\ UNCHANGED <<runVars, outerVars, permVars>>

\* Line 341: fmt.Println("<<<Done>>>")
PrintDone ==
    /\ pc = "print"
    /\ out' = Append(out, Sentinel \o <<"\n">>)
    /\ pc' = "done"
    /\ UNCHANGED <<fs, umask, pathEnv, paths, idx, incorrectEntryCount, parentStat,
                   allExe, exeMap, ranged, cur, file, fatalMsg, fatalAt, fs0, existed,
                   lastRead, invalidSeen, walkFs, pathsOrig>>
    /\ UNCHANGED <<runVars, outerVars, permVars>>

\* The steps whose operation returns an error the code passes to log.Fatal:
\* os.Stat in dirExists, reader.ReadString, os.Stat, os.Mkdir, os.OpenFile and
\* Close, the discovery walk, file.WriteString.
FalliblePcs == {"filter", "check", "prompt", "stat", "mkdir", "marker", "walk",
                "open", "write", "close"}

\* A variant of IOError in which the error of a discovery walk is dropped and
\* the loop goes on to the next search directory.
IOErrorWalkDropped ==
    /\ pc \in FalliblePcs
    /\ pc = "filter" => idx <= Len(SplitPaths(pathEnv))
    /\ pc = "walk" => idx <= Len(paths)
    /\ IF pc = "walk"
       THEN /\ idx' = idx + 1
            /\ UNCHANGED <<pc, fatalMsg, fatalAt>>
       ELSE /\ Fatal(<<"error">>)
            /\ UNCHANGED idx
    /\ UNCHANGED <<fs, umask, pathEnv, paths, incorrectEntryCount, parentStat,
                   allExe, exeMap, ranged, cur, file, out, fs0, existed, lastRead,
                   invalidSeen, walkFs, pathsOrig>>
    /\ UNCHANGED <<runVars, outerVars, permVars>>

\* An operating-system error at one of those steps; the two loops have such a
\* step only while a directory is left to visit.
IOError ==
    /\ pc \in FalliblePcs
    /\ pc = "filter" => idx <= Len(SplitPaths(pathEnv))
    /\ pc = "walk" => idx <= Len(paths)
    /\ Fatal(<<"error">>)
    /\ UNCHANGED <<fs, umask, pathEnv, paths, idx, incorrectEntryCount, parentStat,
                   allExe, exeMap, ranged, cur, file, out, fs0, existed, lastRead,
                   invalidSeen, walkFs, pathsOrig>>
    /\ UNCHANGED <<runVars, outerVars, permVars>>

NextInner ==
    \/ FilterPath
    \/ CheckExisting
    \/ ReadResponse
    \/ StatParent
    \/ Mkdir
    \/ CreateMarker
    \/ ReversePaths
    \/ WalkPath
    \/ BuildMap
    \/ RangeNext
    \/ OpenShim
    \/ WriteShim
    \/ CloseShim
    \/ PrintDone
    \/ IOError

\* The inner instance is invoked again with the same arguments after a run
\* that ended at line 341 (lines 209-341 a second time, on the filesystem the
\* first run left).
RunAgain ==
    /\ pc = "done"
    /\ run = 1
    /\ run' = 2
    /\ fsEnd1' = fs
    /\ exeMap1' = exeMap
    /\ pc' = "filter"
    /\ fs0' = fs
    /\ paths' = <<>>
    /\ idx' = 1
    /\ incorrectEntryCount' = 0
    /\ parentStat' = Info(fs, args.BinPath)
    /\ allExe' = <<>>
    /\ exeMap' = <<>>
    /\ ranged' = {}
    /\ cur' = <<>>
    /\ file' = <<>>
    /\ out' = <<>>
    /\ existed' = FALSE
    /\ lastRead' = NoRead
    /\ invalidSeen' = 0
    /\ walkFs' = fs
    /\ pathsOrig' = <<>>
    /\ UNCHANGED <<fs, umask, pathEnv, fatalMsg, fatalAt>>
    /\ UNCHANGED <<outerVars, permVars>>

\* No call of canExecute on its own is under way.
PermAbsent ==
    /\ permUser = currentUser
    /\ permInfo = Info(BaseFs, DirA)
    /\ permCalled = FALSE
    /\ permResult = FALSE

\* The inner instance is checked with the outer one absent.
OuterAbsent ==
    /\ mainPc = "absent"
    /\ upPc = "idle"
    /\ downPc = "idle"
    /\ exitCode = -1
    /\ proc = "none"
    /\ procStatus = ""
    /\ ctx = "active"
    /\ stdinWrites = <<>>
    /\ script = <<>>
    /\ rd = 0
    /\ data = <<>>
    /\ nRead = 0
    /\ upData = <<>>
    /\ userLines = 0
    /\ userEof = FALSE
    /\ lastChunk = <<>>
    /\ printed = <<>>
    /\ sawSentinel = FALSE

Init == InitInner /\ OuterAbsent /\ PermAbsent

Next == NextInner

Spec == Init /\ [][Next]_vars

\* Two runs in succession, over the filesystems whose zz holds neither a marker
\* nor a subdirectory.
TwiceFilesystems ==
    { f \in InitialFilesystems :
        ~Exists(f, SubZ) /\ ~Exists(f, Join(DirZ, MarkerName)) }

InitTwice ==
    /\ Init
    /\ fs \in TwiceFilesystems

NextTwice ==
    \/ NextInner
    \/ RunAgain

SpecTwice == InitTwice /\ [][NextTwice]_vars

-----------------------------------------------------------------------------
(* Properties of the inner instance *)

\* Positions at which exeMap is complete.
MapBuilt == pc \in {"range", "open", "write", "close", "print", "done"}

\* Directory d held, when discovery walked it, a direct entry n that the
\* classifier accepts.
HoldsExecutable(d, n) ==
    Exists(walkFs, Join(d, n)) /\ IsExeEntry(walkFs, Join(d, n))

EntryNames == {Base(q) : q \in DOMAIN walkFs}

Holders(n) == {k \in 1..Len(pathsOrig) : HoldsExecutable(pathsOrig[k], n)}

FirstHolder(n) == CHOOSE k \in Holders(n) : \A j \in Holders(n) : k <= j

\* C1: when an executable name occurs in two or more search directories, the
\* path recorded for it in the mapping is the one in the earliest of those
\* directories of the list as it was before the reversal.
C1_FirstDirectoryWins ==
    MapBuilt =>
        \A n \in EntryNames :
            Cardinality(Holders(n)) >= 2 =>
                /\ n \in DOMAIN exeMap
                /\ exeMap[n] = Join(pathsOrig[FirstHolder(n)], n)

\* C2: no entry of the mapping is a file of a directory that held a marker
\* when discovery walked it.
C2_NoMarkedSource ==
    MapBuilt =>
        \A n \in DOMAIN exeMap :
            ~Exists(walkFs, Join(Front(exeMap[n]), MarkerName))

Under(fsys, dir) == {q \in DOMAIN fsys : IsPrefix(dir, q) /\ q # dir}

SentinelWrites == {k \in 1..Len(out) : Contains(out[k], Sentinel)}

Accepted == existed /\ ~lastRead.err /\ lastRead.data \in YesLines

\* C3: after at most three unrecognized responses, a y or yes (any case, with
\* surrounding white space) makes the run delete the existing directory, then
\* re-create it with nothing but a new marker and go on to populate it; only an
\* operating-system error stops it.
C3_AcceptRecreates ==
    (Accepted /\ invalidSeen <= 3) =>
        /\ pc # "prompt"
        /\ pc = "fatal" => fatalMsg = <<"error">>
        /\ pc \in {"stat", "mkdir"} => Under(fs, binPath) = {} /\ ~Exists(fs, binPath)
        /\ pc \in {"reverse", "walk", "map"} =>
               /\ IsDir(fs, binPath)
               /\ Under(fs, binPath) = {Join(binPath, MarkerName)}
               /\ fs[Join(binPath, MarkerName)].content = <<>>
        /\ pc \in {"range", "open", "write", "close", "print", "done"} =>
               /\ IsDir(fs, binPath)
               /\ Under(fs, binPath) \subseteq
                      {Join(binPath, MarkerName)} \cup {ShimPath(e) : e \in DOMAIN exeMap}

C3_Witness ==
    /\ Accepted
    /\ invalidSeen = 3
    /\ lastRead.data = <<"Y", "E", "S", " ", "\n">>
    /\ pc = "done"
    /\ Join(binPath, <<"old">>) \in DOMAIN fs0

Refused == existed /\ ~lastRead.err /\ lastRead.data \in NoLines

\* C4: a refusal, a fourth unrecognized response or the end of the input makes
\* the run abort, with the filesystem as it was at the start and no sentinel
\* written.
C4_AbortLeavesDirectory ==
    (Refused \/ invalidSeen > 3 \/ lastRead.err) =>
        /\ pc = "fatal"
        /\ fatalMsg # <<>>
        /\ fs = fs0
        /\ SentinelWrites = {}

C4_Witness ==
    /\ existed
    /\ pc = "fatal"
    /\ invalidSeen = 4
    /\ Unrecognized(lastRead)
    /\ Under(fs, binPath) # {}

ShimsComplete ==
    /\ ranged = DOMAIN exeMap
    /\ file = <<>>
    /\ \A e \in DOMAIN exeMap :
          /\ Exists(fs, ShimPath(e))
          /\ fs[ShimPath(e)].content = ShimContents(exeMap[e])

\* C7: the sentinel is written at most once, only when every shim of the
\* mapping has been created, written and closed, and never by a run that
\* aborts.
C7_SentinelAfterShims ==
    /\ Cardinality(SentinelWrites) <= 1
    /\ SentinelWrites # {} => pc = "done" /\ ShimsComplete
    /\ pc = "done" => SentinelWrites # {}
    /\ pc = "fatal" => SentinelWrites = {}

C7_Witness ==
    /\ pc = "done"
    /\ Cardinality(DOMAIN exeMap) >= 2
    /\ Cardinality(SentinelWrites) = 1

\* The shim text the format is specified to give.
ExpectedShim(exePath) ==
    <<"#!/usr/bin/env bash", "\n", "\n", "toolbox run -c ">> \o args.Container
        \o <<" ">> \o PathText(exePath) \o <<" $@", "\n">>

ExpectedShimName(exe) == Join(binPath, args.Prefix \o <<"-">> \o exe)

\* C10: on success the output directory holds one empty marker, for every entry
\* of the mapping one file prefix-name with the shim text for its path, and
\* nothing else.
C10_ShimSet ==
    pc = "done" =>
        /\ IsDir(fs, binPath)
        /\ Under(fs, binPath) =
               {Join(binPath, MarkerName)} \cup {ExpectedShimName(e) : e \in DOMAIN exeMap}
        /\ fs[Join(binPath, MarkerName)].kind = "file"
        /\ fs[Join(binPath, MarkerName)].content = <<>>
        /\ \A e \in DOMAIN exeMap :
              /\ fs[ExpectedShimName(e)].kind = "file"
              /\ fs[ExpectedShimName(e)].content = ExpectedShim(exeMap[e])
        /\ Cardinality({ExpectedShimName(e) : e \in DOMAIN exeMap})
               = Cardinality(DOMAIN exeMap)

C10_Witness ==
    /\ pc = "done"
    /\ existed
    /\ Cardinality(DOMAIN exeMap) >= 2

-----------------------------------------------------------------------------
(* The outer instance: the session driver (lines 141-207) *)

\* Size of the downstream relay's buffer (4096 in the program), scaled down.
BufSize == 24

\* Lines the user may type while the session runs.
MaxUserLines == 1

NUL == "NUL"

ExitCmd == <<"exit", "\n">>

\* currentExePath(): the text of the resolved path of the executable.
ExeText == PathText(<<(<<"btb">>)>>)

\* Lines 144-150
programArgs ==
    << ExeText,
       <<"--binpath">>, PathText(args.BinPath),
       <<"--prefix">>, args.Prefix,
       <<"--container">>, args.Container,
       <<"--in-container">>, <<"true">> >>

\* Line 151
execProgram == StringsJoin(Append(programArgs, <<"\n">>), <<" ">>)

\* make([]byte, n)
Make(n) == [k \in 1..n |-> NUL]

\* stdout.Read(buf) returning chunk: the chunk lies at the start of buf.
ReadInto(buf, chunk) ==
    [k \in 1..Len(buf) |-> IF k <= Len(chunk) THEN chunk[k] ELSE buf[k]]

\* string(data): every byte of the slice.
BufString(buf) == SubSeq(buf, 1, Len(buf))

\* A variant of IsDone that wants the buffer to start with the sentinel.
IsDonePrefixOnly(buf) == SubSeq(BufString(buf), 1, Len(Sentinel)) = Sentinel

\* A variant of IsDone that looks for the self-invocation line instead.
IsDoneOnEcho(buf) == Contains(BufString(buf), execProgram)

\* Line 191
IsDone(buf) == Contains(BufString(buf), Sentinel)

\* Line 194
IsEcho(buf) == Contains(BufString(buf), execProgram)

\* What the session can write to its output stream in one run.
Scripts ==
    { <<>>,
      <<"?">>,
      <<"o", "k">> \o Sentinel \o <<"\n">>,
      execProgram \o <<"o", "k">> }

UserLineSet == { <<"y", "\n">>, ExitCmd }

\* One Write call on the session's input stream; it delivers its bytes while
\* the subprocess holds the other end.
SessWrite(by, bytes) == [by |-> by, data |-> bytes, ok |-> proc = "running"]

Lives == exitCode = -1

InnerAbsent ==
    /\ pc = "absent"
    /\ fs = EmptyFs
    /\ fs0 = EmptyFs
    /\ umask = 18
    /\ pathEnv = <<>>
    /\ paths = <<>>
    /\ idx = 1
    /\ incorrectEntryCount = 0
    /\ parentStat = DirNode(0)
    /\ allExe = <<>>
    /\ exeMap = <<>>
    /\ ranged = {}
    /\ cur = <<>>
    /\ file = <<>>
    /\ out = <<>>
    /\ fatalMsg = <<>>
    /\ existed = FALSE
    /\ lastRead = NoRead
    /\ invalidSeen = 0
    /\ walkFs = EmptyFs
    /\ pathsOrig = <<>>
    /\ fatalAt = ""
    /\ run = 1
    /\ fsEnd1 = EmptyFs
    /\ exeMap1 = <<>>

InitOuter ==
    /\ mainPc = "start"
    /\ upPc = "idle"
    /\ downPc = "idle"
    /\ exitCode = -1
    /\ proc = "none"
    /\ procStatus = ""
    /\ ctx = "active"
    /\ stdinWrites = <<>>
    /\ script \in Scripts
    /\ rd = 0
    /\ data = <<>>
    /\ nRead = 0
    /\ upData = <<>>
    /\ userLines = 0
    /\ userEof = FALSE
    /\ lastChunk = <<>>
    /\ printed = <<>>
    /\ sawSentinel = FALSE

\* Lines 153-166: the context with its timeout, the pipes, cmd.Start.
StartSession ==
    /\ mainPc = "start"
    /\ Lives
    /\ \/ /\ proc' = "running"
          /\ mainPc' = "writeExec"
          /\ UNCHANGED exitCode
       \/ /\ exitCode' = 1              \* cmd.Start fails: log.Fatal
          /\ mainPc' = "fatal"
          /\ UNCHANGED proc
    /\ UNCHANGED <<upPc, downPc, procStatus, ctx, stdinWrites, script, rd, data, nRead,
                   upData, userLines, userEof, lastChunk, printed, sawSentinel>>
    /\ UNCHANGED <<innerVars, permVars>>

\* Line 168
WriteExec ==
    /\ mainPc = "writeExec"
    /\ Lives
    /\ stdinWrites' = Append(stdinWrites, SessWrite("main", execProgram))
    /\ mainPc' = "goUp"
    /\ UNCHANGED <<upPc, downPc, exitCode, proc, procStatus, ctx, script, rd, data,
                   nRead, upData, userLines, userEof, lastChunk, printed, sawSentinel>>
    /\ UNCHANGED <<innerVars, permVars>>

\* Line 170: the upstream relay starts.
GoUpstream ==
    /\ mainPc = "goUp"
    /\ Lives
    /\ upPc' = "read"
    /\ mainPc' = "goDown"
    /\ UNCHANGED <<downPc, exitCode, proc, procStatus, ctx, stdinWrites, script, rd,
                   data, nRead, upData, userLines, userEof, lastChunk, printed,
                   sawSentinel>>
    /\ UNCHANGED <<innerVars, permVars>>

\* Line 178: the downstream relay starts.
GoDownstream ==
    /\ mainPc = "goDown"
    /\ Lives
    /\ downPc' = "read"
    /\ mainPc' = "wait"
    /\ UNCHANGED <<upPc, exitCode, proc, procStatus, ctx, stdinWrites, script, rd,
                   data, nRead, upData, userLines, userEof, lastChunk, printed,
                   sawSentinel>>
    /\ UNCHANGED <<innerVars, permVars>>

\* Lines 201-203: cmd.Wait returns once the subprocess has ended, with an error
\* unless it ended with status 0.
WaitReturns ==
    /\ mainPc = "wait"
    /\ Lives
    /\ proc = "exited"
    /\ IF procStatus = "ok"
       THEN /\ mainPc' = "cancel"
            /\ UNCHANGED exitCode
       ELSE /\ mainPc' = "fatal"
            /\ exitCode' = 1
    /\ UNCHANGED <<upPc, downPc, proc, procStatus, ctx, stdinWrites, script, rd, data,
                   nRead, upData, userLines, userEof, lastChunk, printed, sawSentinel>>
    /\ UNCHANGED <<innerVars, permVars>>

\* Line 205
Cancel ==
    /\ mainPc = "cancel"
    /\ Lives
    /\ ctx' = IF ctx = "active" THEN "cancelled" ELSE ctx
    /\ mainPc' = "exit"
    /\ UNCHANGED <<upPc, downPc, exitCode, proc, procStatus, stdinWrites, script, rd,
                   data, nRead, upData, userLines, userEof, lastChunk, printed,
                   sawSentinel>>
    /\ UNCHANGED <<innerVars, permVars>>

\* Line 206
ExitZero ==
    /\ mainPc = "exit"
    /\ Lives
    /\ exitCode' = 0
    /\ mainPc' = "exited"
    /\ UNCHANGED <<upPc, downPc, proc, procStatus, ctx, stdinWrites, script, rd, data,
                   nRead, upData, userLines, userEof, lastChunk, printed, sawSentinel>>
    /\ UNCHANGED <<innerVars, permVars>>

\* Line 173: a line of the user's input, or its end; the error is dropped.
UpRead ==
    /\ upPc = "read"
    /\ Lives
    /\ \/ /\ ~userEof
          /\ userLines < MaxUserLines
          /\ \E line \in UserLineSet : upData' = line
          /\ userLines' = userLines + 1
          /\ UNCHANGED userEof
       \/ /\ userEof' = TRUE
          /\ upData' = <<>>
          /\ UNCHANGED userLines
    /\ upPc' = "write"
    /\ UNCHANGED <<mainPc, downPc, exitCode, proc, procStatus, ctx, stdinWrites, script,
                   rd, data, nRead, lastChunk, printed, sawSentinel>>
    /\ UNCHANGED <<innerVars, permVars>>

\* Line 174
UpWrite ==
    /\ upPc = "write"
    /\ Lives
    /\ stdinWrites' = IF upData = <<>> THEN stdinWrites
                      ELSE Append(stdinWrites, SessWrite("up", upData))
    /\ upData' = <<>>
    /\ upPc' = "read"
    /\ UNCHANGED <<mainPc, downPc, exitCode, proc, procStatus, ctx, script, rd, data,
                   nRead, userLines, userEof, lastChunk, printed, sawSentinel>>
    /\ UNCHANGED <<innerVars, permVars>>

\* cmd.Wait has returned and closed the pipes of the session.
PipesClosed == mainPc \in {"cancel", "exit", "exited"}

Min(a, b) == IF a < b THEN a ELSE b

\* Lines 181-185: a Read returns some of the bytes the session has written, at
\* most a buffer of them; at the end of the stream of an ended session, or on
\* a closed pipe, it returns an error and the relay calls log.Fatal.
DownRead ==
    /\ downPc = "read"
    /\ Lives
    /\ \/ /\ ~PipesClosed
          /\ \E n \in 1..Min(BufSize, Len(script) - rd) :
                LET chunk == SubSeq(script, rd + 1, rd + n) IN
                /\ data' = ReadInto(Make(BufSize), chunk)
                /\ nRead' = n
                /\ rd' = rd + n
                /\ lastChunk' = chunk
                /\ sawSentinel' = (sawSentinel \/ Contains(chunk, Sentinel))
          /\ printed' = <<>>
          /\ downPc' = "check"
          /\ UNCHANGED exitCode
       \/ /\ \/ rd = Len(script) /\ proc = "exited"
             \/ PipesClosed
          /\ exitCode' = 1
          /\ downPc' = "fatal"
          /\ UNCHANGED <<data, nRead, rd, lastChunk, printed, sawSentinel>>
    /\ UNCHANGED <<mainPc, upPc, proc, procStatus, ctx, stdinWrites, script, upData,
                   userLines, userEof>>
    /\ UNCHANGED <<innerVars, permVars>>

\* Lines 187-198
DownCheck ==
    /\ downPc = "check"
    /\ Lives
    /\ IF nRead = 0
       THEN /\ downPc' = "read"
            /\ UNCHANGED <<stdinWrites, printed>>
       ELSE IF IsDone(data)
       THEN /\ stdinWrites' = Append(stdinWrites, SessWrite("down", ExitCmd))
            /\ downPc' = "returned"
            /\ UNCHANGED printed
       ELSE IF IsEcho(data)
       THEN /\ downPc' = "read"
            /\ UNCHANGED <<stdinWrites, printed>>
       ELSE /\ printed' = BufString(data)
            /\ downPc' = "read"
            /\ UNCHANGED stdinWrites
    /\ data' = <<>>
    /\ nRead' = 0
    /\ UNCHANGED <<mainPc, upPc, exitCode, proc, procStatus, ctx, script, rd, upData,
                   userLines, userEof, lastChunk, sawSentinel>>
    /\ UNCHANGED <<innerVars, permVars>>

\* The session has been sent an exit line.
ExitDelivered ==
    \E k \in 1..Len(stdinWrites) : stdinWrites[k].ok /\ stdinWrites[k].data = ExitCmd

\* The subprocess ends by itself: with status 0 once its command interpreter
\* has been sent an exit line, with an error at any time.
SessionExits ==
    /\ proc = "running"
    /\ \E st \in {"ok", "err"} :
          /\ st = "ok" => ExitDelivered
          /\ procStatus' = st
    /\ proc' = "exited"
    /\ UNCHANGED <<mainPc, upPc, downPc, exitCode, ctx, stdinWrites, script, rd, data,
                   nRead, upData, userLines, userEof, lastChunk, printed, sawSentinel>>
    /\ UNCHANGED <<innerVars, permVars>>

\* A variant of Timeout for a context without a deadline.
TimeoutNever ==
    /\ FALSE
    /\ UNCHANGED vars

\* Lines 153-155: the deadline of the context passes and exec.CommandContext
\* kills the subprocess.
Timeout ==
    /\ Lives
    /\ ctx = "active"
    /\ proc = "running"
    /\ ctx' = "expired"
    /\ proc' = "exited"
    /\ procStatus' = "killed"
    /\ UNCHANGED <<mainPc, upPc, downPc, exitCode, stdinWrites, script, rd, data, nRead,
                   upData, userLines, userEof, lastChunk, printed, sawSentinel>>
    /\ UNCHANGED <<innerVars, permVars>>

MainFlow ==
    \/ StartSession
    \/ WriteExec
    \/ GoUpstream
    \/ GoDownstream
    \/ WaitReturns
    \/ Cancel
    \/ ExitZero

NextOuter ==
    \/ MainFlow
    \/ UpRead
    \/ UpWrite
    \/ DownRead
    \/ DownCheck
    \/ SessionExits
    \/ Timeout

InitO == InitOuter /\ InnerAbsent /\ PermAbsent

NextO == NextOuter

SpecOuter == InitO /\ [][NextO]_vars

\* The Go scheduler runs the main flow whenever it can take a step, and the
\* deadline of the context passes.
SpecOuterFair ==
    SpecOuter /\ WF_vars(MainFlow) /\ WF_vars(Timeout)

-----------------------------------------------------------------------------
(* Properties of the outer instance *)

\* The downstream relay has written the termination command.
DownWroteExit ==
    \E k \in 1..Len(stdinWrites) :
        stdinWrites[k].by = "down" /\ stdinWrites[k].data = ExitCmd

\* C5: a chunk that holds the sentinel anywhere makes the downstream relay
\* write the termination command into the session and stop: it prints nothing
\* of the chunk and reads no more.
C5_SentinelTerminates ==
    /\ Contains(lastChunk, Sentinel) =>
          /\ downPc \in {"check", "returned"}
          /\ printed = <<>>
          /\ downPc = "returned" => DownWroteExit
    /\ downPc = "returned" => Contains(lastChunk, Sentinel)

C5_Witness ==
    /\ downPc = "returned"
    /\ DownWroteExit
    /\ Len(lastChunk) > Len(Sentinel)
    /\ lastChunk[1] = "k"

\* C6: a chunk that is exactly the self-invocation line is not printed, and a
\* chunk that neither holds the sentinel nor is that line is printed as
\* exactly the bytes that were read.
C6_VerbatimForwarding ==
    (downPc = "read" /\ lastChunk # <<>>) =>
        /\ lastChunk = execProgram => printed = <<>>
        /\ (~Contains(lastChunk, Sentinel) /\ lastChunk # execProgram) =>
               printed = lastChunk

\* C8: the driver itself (the main flow or the downstream relay) writes the
\* termination command into the session only after a downstream read has
\* returned a chunk that holds the sentinel.
C8_TerminationAfterSentinel ==
    \A k \in 1..Len(stdinWrites) :
        (stdinWrites[k].by # "up" /\ stdinWrites[k].data = ExitCmd) => sawSentinel

C8_Witness ==
    /\ Len(stdinWrites) = 3
    /\ stdinWrites[2].by = "up"
    /\ stdinWrites[3].by = "down"
    /\ stdinWrites[3].data = ExitCmd
    /\ sawSentinel

\* C9: whatever the relays do and whether or not the sentinel arrives, the
\* subprocess ends (the timeout kills one that does not end by itself) and the
\* outer process exits.
C9_BoundedLifetime ==
    /\ [](ctx = "expired" => proc = "exited")
    /\ <>(exitCode # -1 /\ proc # "running")

C9_Witness ==
    /\ exitCode = 1
    /\ procStatus = "killed"
    /\ ctx = "expired"
    /\ ~sawSentinel
    /\ rd = Len(script)

-----------------------------------------------------------------------------
(* Two runs in succession *)

\* The shim files of the output directory: every entry but the marker, with
\* its bytes.
ShimFiles(fsys) ==
    [q \in Under(fsys, binPath) \ {Join(binPath, MarkerName)} |-> fsys[q].content]

\* C11: when a run that ended with success is followed by a second run with the
\* same arguments, the prompt of the second run is answered y and the second
\* run builds the same mapping, the second run leaves shim files of the same
\* names and the same bytes as the first left.
C11_Idempotent ==
    (run = 2 /\ pc = "done" /\ Accepted /\ exeMap = exeMap1) =>
        ShimFiles(fs) = ShimFiles(fsEnd1)

C11_Witness ==
    /\ run = 2
    /\ pc = "done"
    /\ Accepted
    /\ exeMap = exeMap1
    /\ Cardinality(DOMAIN exeMap) >= 2
    /\ DOMAIN ShimFiles(fs) # {}

-----------------------------------------------------------------------------
(* A call of canExecute (lines 68-104) on its own *)

PermIds == {0, 1000}

\* user.Current(): the calling user's id and primary group id.
PermUsers == [Uid : PermIds, Gid : PermIds]

\* The os.FileInfo of a regular file (rw-r--r-- and any of the three execute
\* bits) on a platform whose Sys() is the *syscall.Stat_t that os.Lstat fills.
PermInfos ==
    { [mode |-> 420 + u * S_IXUSR + g * S_IXGRP + o * S_IXOTH, isDir |-> FALSE,
       sysType |-> "*syscall.Stat_t", uid |-> fu, gid |-> fg] :
        u \in {0, 1}, g \in {0, 1}, o \in {0, 1}, fu \in PermIds, fg \in PermIds }

InitPerm ==
    /\ InnerAbsent
    /\ OuterAbsent
    /\ permUser \in PermUsers
    /\ permInfo \in PermInfos
    /\ permCalled = FALSE
    /\ permResult = FALSE

\* canExecute(user, info) is called and returns.
CallCanExecute ==
    /\ ~permCalled
    /\ permCalled' = TRUE
    /\ permResult' = canExecute(permUser, permInfo)
    /\ UNCHANGED <<permUser, permInfo>>
    /\ UNCHANGED <<innerVars, outerVars>>

NextPerm == CallCanExecute

SpecPerm == InitPerm /\ [][NextPerm]_vars

\* C12: canExecute returns true exactly when the other-execute bit is set, or
\* the group-execute bit is set and the file's group is the user's primary
\* group, or the owner-execute bit is set and the file's owner is the user;
\* where the platform exposes ownership the group and owner grants count.
C12_PermissionGrants ==
    permCalled =>
        (permResult <=>
            \/ BitAnd(S_IXOTH, permInfo.mode) # 0
            \/ BitAnd(S_IXGRP, permInfo.mode) # 0 /\ permInfo.gid = permUser.Gid
            \/ BitAnd(S_IXUSR, permInfo.mode) # 0 /\ permInfo.uid = permUser.Uid)

-----------------------------------------------------------------------------
(* The walks of the search directories *)

\* Every path collected so far is a direct entry of a search directory.
DirectEntriesOnly ==
    \A k \in 1..Len(allExe) : \E j \in 1..Len(paths) : Front(allExe[k]) = paths[j]

\* When the filter has finished, an existing directory of PATH is left out
\* exactly when the directory itself holds a marker.
MarkerDirectOnly ==
    pc = "check" =>
        \A k \in 1..Len(SplitPaths(pathEnv)) :
            LET d == SplitPaths(pathEnv)[k] IN
            dirExists(fs, d) =>
                ((\E j \in 1..Len(paths) : paths[j] = d)
                    <=> ~Exists(fs, Join(d, MarkerName)))

\* C13: neither walk descends into a subdirectory of a search directory, not
\* even one named like the search directory: no file inside a subdirectory is
\* collected, and a marker inside a subdirectory does not exclude the
\* directory.
C13_NoDescent == DirectEntriesOnly /\ MarkerDirectOnly

-----------------------------------------------------------------------------
(* The handshake and the end of the outer instance *)

\* The bytes of the session's output the downstream relay has read so far.
ReadSoFar == SubSeq(script, 1, rd)

\* C14: whenever the session's output holds the sentinel, however its bytes are
\* split into the chunks the Reads return, the downstream relay observes the
\* sentinel: once it has read the sentinel's bytes it does not go on relaying
\* but writes the termination command and returns.
C14_HandshakeCompletes ==
    Contains(ReadSoFar, Sentinel) =>
        \/ downPc = "check"
        \/ downPc = "returned" /\ DownWroteExit

\* C15: the outer process exits with status 0 only if the downstream relay has
\* observed the sentinel before; a subprocess that ends, with whatever status,
\* before the sentinel is seen makes the outer exit non-zero, whichever task
\* runs first.
C15_SuccessImpliesSentinel ==
    exitCode = 0 => sawSentinel /\ DownWroteExit

\* Once reader.ReadBytes has returned the end of the input, the process has
\* exited.
InputEndFatal == userEof => ~Lives

\* Once a Write on the session's input stream has failed, the process has
\* exited.
FailedWriteFatal ==
    \A k \in 1..Len(stdinWrites) : ~stdinWrites[k].ok => ~Lives

\* C16: every operation that fails makes the process log the error and exit
\* non-zero at once, the upstream relay's read of the process's own input
\* (its end included) and the writes to the session among them; the run never
\* goes on after an error.
C16_EveryErrorFatal == InputEndFatal /\ FailedWriteFatal

-----------------------------------------------------------------------------
(* Discovery, the marker and the shims *)

\* This run has opened or finished a shim file.
ShimStarted == ranged # {} \/ file # <<>> \/ pc \in {"write", "close"}

\* C17: an error during the discovery walk of any search directory makes the
\* run abort with no shim file written by it and no sentinel; a shim file is
\* written only after the walk of every search directory has completed without
\* error.
C17_FailFastDiscovery ==
    /\ fatalAt = "walk" =>
          /\ pc = "fatal"
          /\ ~ShimStarted
          /\ Under(fs, binPath) = {Join(binPath, MarkerName)}
          /\ SentinelWrites = {}
    /\ ShimStarted =>
          /\ idx > Len(paths)
          /\ fatalAt # "walk"
          /\ allExe = Flatten([k \in 1..Len(paths) |-> WalkExe(walkFs, paths[k])])

C17_Witness ==
    /\ fatalAt = "walk"
    /\ idx = 2
    /\ Len(paths) >= 2
    /\ allExe # <<>>

\* C18: in every state of a run, the state a fatal abort leaves included, if
\* this run has started a shim file then the output directory holds its
\* marker, a file of the name .btbMarker; the marker is there before the first
\* shim and populating the directory leaves it as it was created.
C18_MarkerPrecedesShims ==
    /\ ShimStarted =>
          /\ Exists(fs, Join(binPath, MarkerName))
          /\ fs[Join(binPath, MarkerName)].kind = "file"
          /\ Cardinality({q \in Children(fs, binPath) : Base(q) = MarkerName}) = 1
    /\ (MapBuilt \/ ShimStarted) =>
          /\ Exists(walkFs, Join(binPath, MarkerName))
          /\ fs[Join(binPath, MarkerName)] = walkFs[Join(binPath, MarkerName)]

C18_Witness ==
    /\ pc = "fatal"
    /\ fatalAt = "open"
    /\ ranged # {}
    /\ Cardinality(Under(fs, binPath)) >= 2

\* C19: once the downstream relay has written the termination command, no
\* task writes further bytes to the session's input stream; the upstream relay
\* forwards no more of the user's input.
C19_QuiescentAfterTermination ==
    \A k \in 1..Len(stdinWrites) :
        (stdinWrites[k].by = "down" /\ stdinWrites[k].data = ExitCmd) =>
            k = Len(stdinWrites)

====
